---- MODULE Spec2Model ----
(***************************************************************************)
(* The task store of the to-do application (src/App.tsx), the detail modal *)
(* that edits a task snapshot (TaskDetailModal), the natural-language      *)
(* intake box (SmartInput) and the periodic reminder check.                *)
(*                                                                         *)
(* Time is counted in slots since 2024-01-01T00:00 (a Monday), with        *)
(* SlotsPerDay slots to a day.  An ISO date string is represented by the   *)
(* instant it denotes; an absent (undefined) date is NoDate.  Absent       *)
(* strings are the string "undefined".  A log message is the sequence of   *)
(* its parts: the fixed text followed by the interpolated values.          *)
(***************************************************************************)
EXTENDS Integers, Sequences, FiniteSets, TLC

\* ------------------------------------------------------------- bounds
\* ids handed out by crypto.randomUUID() over one run of Spec
MaxIds == 2
\* ids handed out over one run of SpecOps, SpecModal and SpecViews
MaxIdsOps == 3
MaxIdsModal == 4
MaxIdsViews == 3
\* the clock runs from 0 to MaxNow
MaxNow == 1
\* granularity of the clock
SlotsPerDay == 2

\* ------------------------------------------------------------- values
NoDate == -1
Undef == "undefined"
NoCustom == [amount |-> 0, unit |-> Undef]

HasDate(d) == d # NoDate
\* JavaScript truthiness of an optional string
Truthy(s) == s # Undef /\ s # ""

INITIAL_LISTS ==
  << [id |-> "personal", name |-> "Personal"],
     [id |-> "work", name |-> "Work"],
     [id |-> "ideas", name |-> "Ideas"] >>

INITIAL_LABELS ==
  << [id |-> "urgent", name |-> "Urgent"],
     [id |-> "design", name |-> "Design"],
     [id |-> "dev", name |-> "Dev"] >>

BuiltinViews == {"inbox", "today", "next7", "upcoming", "all", "activity", "search"}

Priorities == {"None", "Low", "Medium", "High"}
Recurrences == {"None", "Daily", "Weekdays", "Weekly", "Monthly", "Yearly", "Custom"}
RecurrenceUnits == {"days", "weeks", "months", "years"}

\* ------------------------------------------------------------- sequences
Range(s) == {s[i] : i \in DOMAIN s}

RECURSIVE SelectSeqBy(_, _)
\* s.filter(x => x \in keep)
SelectSeqBy(s, keep) ==
  IF s = <<>> THEN <<>>
  ELSE IF Head(s) \in keep THEN <<Head(s)>> \o SelectSeqBy(Tail(s), keep)
       ELSE SelectSeqBy(Tail(s), keep)

IsPrefix(s, t) == Len(s) <= Len(t) /\ SubSeq(t, 1, Len(s)) = s

\* prev.findIndex(t => t.id = id); 0 when there is none
FindIndex(s, id) ==
  IF \E i \in DOMAIN s : s[i].id = id
  THEN CHOOSE i \in DOMAIN s : s[i].id = id /\ \A j \in 1..(i - 1) : s[j].id # id
  ELSE 0

\* {...a, ...b}: the fields of b override those of a
Spread(a, b) == [f \in DOMAIN a \cup DOMAIN b |-> IF f \in DOMAIN b THEN b[f] ELSE a[f]]

\* ------------------------------------------------------------- Date
IsLeap(y) == (y % 4 = 0 /\ y % 100 # 0) \/ y % 400 = 0
DaysInYear(y) == IF IsLeap(y) THEN 366 ELSE 365
\* months are 0..11 as in Date.getMonth()
DaysInMonth(y, m) ==
  IF m = 1 THEN (IF IsLeap(y) THEN 29 ELSE 28)
  ELSE IF m \in {3, 5, 8, 10} THEN 30 ELSE 31

RECURSIVE YearFrom(_, _)
YearFrom(day, y) ==
  IF day < DaysInYear(y) THEN <<y, day>> ELSE YearFrom(day - DaysInYear(y), y + 1)

RECURSIVE MonthFrom(_, _, _)
MonthFrom(doy, y, m) ==
  IF doy < DaysInMonth(y, m) THEN <<m, doy + 1>>
  ELSE MonthFrom(doy - DaysInMonth(y, m), y, m + 1)

DayOf(t) == t \div SlotsPerDay
TimeOfDay(t) == t % SlotsPerDay

getFullYear(t) == YearFrom(DayOf(t), 2024)[1]
getMonth(t) == MonthFrom(YearFrom(DayOf(t), 2024)[2], getFullYear(t), 0)[1]
getDate(t) == MonthFrom(YearFrom(DayOf(t), 2024)[2], getFullYear(t), 0)[2]
\* 0 = Sunday .. 6 = Saturday; day 0 is a Monday
getDay(t) == (DayOf(t) + 1) % 7

RECURSIVE DaysBeforeYear(_)
DaysBeforeYear(y) == IF y <= 2024 THEN 0 ELSE DaysInYear(y - 1) + DaysBeforeYear(y - 1)

RECURSIVE DaysBeforeMonth(_, _)
DaysBeforeMonth(y, m) == IF m = 0 THEN 0 ELSE DaysInMonth(y, m - 1) + DaysBeforeMonth(y, m - 1)

\* the instant of year y, month m (which may exceed 11), day-of-month d (which
\* may exceed the month's length), at the time of day of t
MakeDate(y, m, d, t) ==
  (DaysBeforeYear(y + (m \div 12)) + DaysBeforeMonth(y + (m \div 12), m % 12) + (d - 1))
    * SlotsPerDay + TimeOfDay(t)

setDate(t, d) == MakeDate(getFullYear(t), getMonth(t), d, t)
setMonth(t, m) == MakeDate(getFullYear(t), m, getDate(t), t)
setFullYear(t, y) == MakeDate(y, getMonth(t), getDate(t), t)

\* new Date(d).toLocaleDateString(): the calendar day, as text
toLocaleDateString(t) == ToString(DayOf(t))

\* ------------------------------------------------------------- recurrence
RECURSIVE NextWeekday_WhileLoop(_)
\* a loop that tests before it advances: a weekday anchor is returned as it is
NextWeekday_WhileLoop(t) ==
  IF getDay(t) = 0 \/ getDay(t) = 6
  THEN NextWeekday_WhileLoop(setDate(t, getDate(t) + 1))
  ELSE t

RECURSIVE NextWeekday(_)
\* do { date.setDate(date.getDate() + 1) } while (Sunday or Saturday)
NextWeekday(t) ==
  LET n == setDate(t, getDate(t) + 1)
  IN IF getDay(n) = 0 \/ getDay(n) = 6 THEN NextWeekday(n) ELSE n

\* a calculator whose switch has no case for Custom
calculateNextDueDate_NoCustomCase(currentDateStr, recurrence, custom) ==
  IF ~HasDate(currentDateStr) THEN NoDate
  ELSE LET date == currentDateStr IN
    CASE recurrence = "Daily" -> setDate(date, getDate(date) + 1)
      [] recurrence = "Weekly" -> setDate(date, getDate(date) + 7)
      [] recurrence = "Monthly" -> setMonth(date, getMonth(date) + 1)
      [] recurrence = "Yearly" -> setFullYear(date, getFullYear(date) + 1)
      [] recurrence = "Weekdays" -> NextWeekday(date)
      [] OTHER -> date

calculateNextDueDate(currentDateStr, recurrence, custom) ==
  IF ~HasDate(currentDateStr) THEN NoDate
  ELSE LET date == currentDateStr IN
    CASE recurrence = "Daily" -> setDate(date, getDate(date) + 1)
      [] recurrence = "Weekly" -> setDate(date, getDate(date) + 7)
      [] recurrence = "Monthly" -> setMonth(date, getMonth(date) + 1)
      [] recurrence = "Yearly" -> setFullYear(date, getFullYear(date) + 1)
      [] recurrence = "Weekdays" -> NextWeekday(date)
      [] recurrence = "Custom" ->
           IF custom # NoCustom THEN
             CASE custom.unit = "days" -> setDate(date, getDate(date) + custom.amount)
               [] custom.unit = "weeks" -> setDate(date, getDate(date) + custom.amount * 7)
               [] custom.unit = "months" -> setMonth(date, getMonth(date) + custom.amount)
               [] custom.unit = "years" -> setFullYear(date, getFullYear(date) + custom.amount)
               [] OTHER -> date
           ELSE date
      [] OTHER -> date

\* ------------------------------------------------------------- records (types.ts)
Log(id, timestamp, message) == [id |-> id, timestamp |-> timestamp, message |-> message]

\* the placeholder the detail modal appends on every edit
PlaceholderMsg == <<"Updated task details">>

Ids(s) == {s[i].id : i \in DOMAIN s}

\* ------------------------------------------------------------- App: handleAddTask
ListIdForView(activeView) == IF activeView \in BuiltinViews THEN "inbox" ELSE activeView

Get(partial, f, default) == IF f \in DOMAIN partial THEN partial[f] ELSE default

\* the task handleAddTask builds: the defaults, overridden by ...newTaskPartial
NewTask(newTaskPartial, activeView, taskId, logId, ts) ==
  Spread(
    [ id |-> taskId,
      listId |-> ListIdForView(activeView),
      title |-> IF Truthy(Get(newTaskPartial, "title", Undef))
                THEN newTaskPartial.title ELSE "Untitled Task",
      description |-> Get(newTaskPartial, "description", Undef),
      completed |-> FALSE,
      dueDate |-> NoDate,
      deadline |-> NoDate,
      estimate |-> Undef,
      actualTime |-> Undef,
      priority |-> IF Truthy(Get(newTaskPartial, "priority", Undef))
                   THEN newTaskPartial.priority ELSE "None",
      subtasks |-> <<>>,
      recurrence |-> "None",
      recurrenceCustom |-> NoCustom,
      labelIds |-> <<>>,
      reminders |-> <<>>,
      attachments |-> <<>>,
      color |-> Undef,
      logs |-> << Log(logId, ts, <<"Task created">>) >>,
      createdAt |-> ts ],
    newTaskPartial)

\* an add that puts the new task behind the stored ones
handleAddTask_Appends(prev, newTaskPartial, activeView, taskId, logId, ts) ==
  Append(prev, NewTask(newTaskPartial, activeView, taskId, logId, ts))

handleAddTask(prev, newTaskPartial, activeView, taskId, logId, ts) ==
  << NewTask(newTaskPartial, activeView, taskId, logId, ts) >> \o prev

\* ------------------------------------------------------------- App: handleToggleTask
\* whether toggling the task spawns its next occurrence
Spawns(task) == ~task.completed /\ task.recurrence # "None"

\* the ids handleToggleTask draws from crypto.randomUUID()
ToggleIds(prev, id) ==
  IF FindIndex(prev, id) = 0 THEN 0
  ELSE IF Spawns(prev[FindIndex(prev, id)]) THEN 3 ELSE 1

\* a next occurrence that keeps the due date of the completed one
NextOccurrence_SameDueDate(task, nextDate, taskId, logId, ts) ==
  [task EXCEPT
     !.id = taskId,
     !.completed = FALSE,
     !.reminders = <<>>,
     !.attachments = <<>>,
     !.logs = << Log(logId, ts, <<"Recurring task created from", task.title>>) >>,
     !.createdAt = ts]

NextOccurrence(task, nextDate, taskId, logId, ts) ==
  [task EXCEPT
     !.id = taskId,
     !.completed = FALSE,
     !.dueDate = nextDate,
     !.reminders = <<>>,
     !.attachments = <<>>,
     !.logs = << Log(logId, ts, <<"Recurring task created from", task.title>>) >>,
     !.createdAt = ts]

\* a toggle that sets the flag instead of flipping it
ToggledTask_AlwaysCompletes(task, logId, ts) ==
  [task EXCEPT
     !.completed = TRUE,
     !.logs = Append(task.logs, Log(logId, ts, <<"Completed task">>))]

\* updatedTask: the flag flipped and the completion log appended
ToggledTask(task, logId, ts) ==
  LET newCompletedStatus == ~task.completed IN
  [task EXCEPT
     !.completed = newCompletedStatus,
     !.logs = Append(task.logs,
                Log(logId, ts,
                    IF newCompletedStatus THEN <<"Completed task">>
                    ELSE <<"Uncompleted task">>))]

\* a toggle that spawns whenever the task recurs, reopening included
handleToggleTask_SpawnsOnReopen(prev, id, firstId, ts) ==
  LET taskIndex == FindIndex(prev, id) IN
  IF taskIndex = 0 THEN prev
  ELSE
    LET task == prev[taskIndex]
        newTasks == [prev EXCEPT ![taskIndex] = ToggledTask(task, firstId, ts)]
        nextDate == calculateNextDueDate(
                      IF HasDate(task.dueDate) THEN task.dueDate ELSE ts,
                      task.recurrence, task.recurrenceCustom)
    IN IF task.recurrence # "None" /\ HasDate(nextDate)
       THEN << NextOccurrence(task, nextDate, firstId + 1, firstId + 2, ts) >> \o newTasks
       ELSE newTasks

\* ids: firstId for the completion log, firstId + 1 for the spawned task and
\* firstId + 2 for its log
handleToggleTask(prev, id, firstId, ts) ==
  LET taskIndex == FindIndex(prev, id) IN
  IF taskIndex = 0 THEN prev
  ELSE
    LET task == prev[taskIndex]
        newCompletedStatus == ~task.completed
        updatedTask == ToggledTask(task, firstId, ts)
        newTasks == [prev EXCEPT ![taskIndex] = updatedTask]
        nextDate == calculateNextDueDate(
                      IF HasDate(task.dueDate) THEN task.dueDate ELSE ts,
                      task.recurrence, task.recurrenceCustom)
    IN IF newCompletedStatus /\ task.recurrence # "None" /\ HasDate(nextDate)
       THEN << NextOccurrence(task, nextDate, firstId + 1, firstId + 2, ts) >> \o newTasks
       ELSE newTasks

\* ------------------------------------------------------------- App: handleDeleteTask
\* a delete whose filter keeps the match and drops the rest
handleDeleteTask_KeepsMatch(prev, id) == SelectSeq(prev, LAMBDA t : t.id = id)

handleDeleteTask(prev, id) == SelectSeq(prev, LAMBDA t : t.id # id)

\* ------------------------------------------------------------- App: lists and labels
handleDeleteListLists(prevLists, id) == SelectSeq(prevLists, LAMBDA l : l.id # id)

\* a list deletion that leaves the tasks of the list where they are
handleDeleteListTasks_LeavesTasks(prev, id) == prev

handleDeleteListTasks(prev, id) ==
  [i \in DOMAIN prev |-> IF prev[i].listId = id THEN [prev[i] EXCEPT !.listId = "inbox"]
                         ELSE prev[i]]

handleDeleteLabelLabels(prevLabels, id) == SelectSeq(prevLabels, LAMBDA l : l.id # id)

\* a label deletion whose filter keeps the deleted id and drops the others
handleDeleteLabelTasks_KeepsMatch(prev, id) ==
  [i \in DOMAIN prev |->
     [prev[i] EXCEPT !.labelIds = SelectSeq(prev[i].labelIds, LAMBDA lid : lid = id)]]

handleDeleteLabelTasks(prev, id) ==
  [i \in DOMAIN prev |->
     [prev[i] EXCEPT !.labelIds = SelectSeq(prev[i].labelIds, LAMBDA lid : lid # id)]]

\* ------------------------------------------------------------- App: reminder check
\* a check that misses the reminder due at this very instant
RemindersToFire_Strict(task, now) ==
  SelectSeq(task.reminders, LAMBDA r : ~r.fired /\ r.time < now)

RemindersToFire(task, now) ==
  SelectSeq(task.reminders, LAMBDA r : ~r.fired /\ r.time <= now)

FireReminders(task, now) ==
  IF task.completed \/ Len(task.reminders) = 0 THEN task
  ELSE IF Len(RemindersToFire(task, now)) > 0
       THEN [task EXCEPT !.reminders =
               [i \in DOMAIN task.reminders |->
                  IF task.reminders[i].id \in Ids(RemindersToFire(task, now))
                  THEN [task.reminders[i] EXCEPT !.fired = TRUE]
                  ELSE task.reminders[i]]]
       ELSE task

\* a check that looks for updates in the first task only
reminderCheck_FirstTaskOnly(currentTasks, now) ==
  LET updatedTasks == [i \in DOMAIN currentTasks |-> FireReminders(currentTasks[i], now)]
      hasUpdates == /\ currentTasks # <<>>
                    /\ ~currentTasks[1].completed
                    /\ Len(RemindersToFire(currentTasks[1], now)) > 0
  IN IF hasUpdates THEN updatedTasks ELSE currentTasks

\* the setTasks updater of the interval callback
reminderCheck(currentTasks, now) ==
  LET updatedTasks == [i \in DOMAIN currentTasks |-> FireReminders(currentTasks[i], now)]
      hasUpdates == \E i \in DOMAIN currentTasks :
                      ~currentTasks[i].completed
                      /\ Len(RemindersToFire(currentTasks[i], now)) > 0
  IN IF hasUpdates THEN updatedTasks ELSE currentTasks

\* the reminders for which the callback raises a Notification, in order
NotifiedBy(currentTasks, now) ==
  UNION { IF currentTasks[i].completed THEN {}
          ELSE Ids(RemindersToFire(currentTasks[i], now)) : i \in DOMAIN currentTasks }


\* ------------------------------------------------------------- App: handleUpdateTask
RECURSIVE Concat(_)
Concat(ss) == IF ss = <<>> THEN <<>> ELSE Head(ss) \o Concat(Tail(ss))

When(cond, msg) == IF cond THEN << msg >> ELSE <<>>

\* Array.prototype.sort() on label ids: the ids in lexicographic order
LabelOrder == << "design", "dev", "urgent" >>
LabelRank(id) ==
  IF \E i \in DOMAIN LabelOrder : LabelOrder[i] = id
  THEN CHOOSE i \in DOMAIN LabelOrder : LabelOrder[i] = id
  ELSE 0

RECURSIVE SortLabels(_)
SortLabels(s) ==
  IF s = <<>> THEN <<>>
  ELSE LET m == CHOOSE i \in DOMAIN s : \A j \in DOMAIN s : LabelRank(s[i]) <= LabelRank(s[j])
       IN << s[m] >> \o SortLabels(SubSeq(s, 1, m - 1) \o SubSeq(s, m + 1, Len(s)))

ListName(lists, id) ==
  IF \E i \in DOMAIN lists : lists[i].id = id
  THEN lists[FindIndex(lists, id)].name
  ELSE "Inbox"

LabelName(labels, id) ==
  IF \E i \in DOMAIN labels : labels[i].id = id
  THEN labels[FindIndex(labels, id)].name
  ELSE "Unknown"

DiffFields(t, u, lists) ==
  Concat(<<
    When(t.title # u.title, <<"Renamed to", u.title>>),
    When(t.description # u.description,
         IF ~Truthy(t.description) /\ Truthy(u.description) THEN <<"Added description">>
         ELSE IF Truthy(t.description) /\ ~Truthy(u.description) THEN <<"Removed description">>
         ELSE <<"Updated description">>),
    When(t.dueDate # u.dueDate,
         IF HasDate(u.dueDate)
         THEN (IF HasDate(t.dueDate) THEN <<"Rescheduled to", toLocaleDateString(u.dueDate)>>
               ELSE <<"Set due date to", toLocaleDateString(u.dueDate)>>)
         ELSE <<"Removed due date">>),
    When(t.deadline # u.deadline,
         IF HasDate(u.deadline)
         THEN (IF HasDate(t.deadline) THEN <<"Changed deadline to", toLocaleDateString(u.deadline)>>
               ELSE <<"Set deadline to", toLocaleDateString(u.deadline)>>)
         ELSE <<"Removed deadline">>),
    When(t.priority # u.priority, <<"Changed priority from", t.priority, "to", u.priority>>),
    When(t.listId # u.listId,
         <<"Moved from", ListName(lists, t.listId), "to", ListName(lists, u.listId)>>),
    When(t.estimate # u.estimate,
         IF Truthy(u.estimate) THEN <<"Set estimate to", u.estimate>>
         ELSE <<"Removed estimate">>),
    When(t.actualTime # u.actualTime,
         IF Truthy(u.actualTime) THEN <<"Logged actual time:", u.actualTime>>
         ELSE <<"Removed actual time log">>)
  >>)

DiffLabels(t, u, labels) ==
  LET oldLabels == SortLabels(t.labelIds)
      newLabels == SortLabels(u.labelIds)
      added == SelectSeq(newLabels, LAMBDA id : id \notin Range(oldLabels))
      removed == SelectSeq(oldLabels, LAMBDA id : id \notin Range(newLabels))
  IN IF oldLabels # newLabels
     THEN [i \in DOMAIN added |-> <<"Added label", LabelName(labels, added[i])>>]
          \o [i \in DOMAIN removed |-> <<"Removed label", LabelName(labels, removed[i])>>]
     ELSE <<>>

DiffAttachments(t, u) ==
  LET oldAttachments == t.attachments
      newAttachments == u.attachments
      added == SelectSeq(newAttachments, LAMBDA a : a.id \notin Ids(oldAttachments))
      removed == SelectSeq(oldAttachments, LAMBDA a : a.id \notin Ids(newAttachments))
  IN IF Len(oldAttachments) # Len(newAttachments)
     THEN [i \in DOMAIN added |-> <<"Added attachment", added[i].name>>]
          \o [i \in DOMAIN removed |-> <<"Removed attachment", removed[i].name>>]
     ELSE <<>>

DiffSubtask(os, ns) ==
  Concat(<<
    When(os.completed # ns.completed,
         IF ns.completed THEN <<"Completed subtask:", ns.title>>
         ELSE <<"Uncompleted subtask:", ns.title>>),
    When(os.title # ns.title, <<"Renamed subtask to", ns.title>>),
    When(os.dueDate # ns.dueDate,
         IF HasDate(ns.dueDate) /\ ~HasDate(os.dueDate)
         THEN <<"Set due date for subtask", ns.title>>
         ELSE IF ~HasDate(ns.dueDate) /\ HasDate(os.dueDate)
         THEN <<"Removed due date from subtask", ns.title>>
         ELSE <<"Rescheduled subtask", ns.title>>)
  >>)

DiffSubtasks(t, u) ==
  LET oldSubtasks == t.subtasks
      newSubtasks == u.subtasks
  IN Concat([i \in DOMAIN newSubtasks |->
               IF newSubtasks[i].id \notin Ids(oldSubtasks)
               THEN << <<"Added subtask:", newSubtasks[i].title>> >>
               ELSE DiffSubtask(oldSubtasks[FindIndex(oldSubtasks, newSubtasks[i].id)],
                                newSubtasks[i])])
     \o Concat([i \in DOMAIN oldSubtasks |->
               When(oldSubtasks[i].id \notin Ids(newSubtasks),
                    <<"Deleted subtask:", oldSubtasks[i].title>>)])

\* the messages of newLogs, in the order addLog is called
DiffMessages(t, u, lists, labels) ==
  DiffFields(t, u, lists) \o DiffLabels(t, u, labels) \o DiffAttachments(t, u)
    \o DiffSubtasks(t, u)

\* a merge that keeps the placeholder logs of the modal
MergeLogs_KeepsPlaceholder(t, u, newLogs) ==
  LET previousLogIds == Ids(t.logs)
      logsFromModal == SelectSeq(u.logs, LAMBDA l : l.id \notin previousLogIds)
  IN t.logs \o logsFromModal \o newLogs

\* a merge that starts from the logs of the snapshot, not of the stored task
MergeLogs_FromSnapshot(t, u, newLogs) ==
  SelectSeq(u.logs, LAMBDA l : l.message # PlaceholderMsg) \o newLogs

\* a merge that puts the synthesized logs before the logs kept from the snapshot
MergeLogs_NewLogsFirst(t, u, newLogs) ==
  LET previousLogIds == Ids(t.logs)
      logsFromModal == SelectSeq(u.logs, LAMBDA l : l.id \notin previousLogIds)
      meaningfulLogsFromModal ==
        SelectSeq(logsFromModal, LAMBDA l : l.message # PlaceholderMsg)
  IN t.logs \o newLogs \o meaningfulLogsFromModal

\* Old Logs + Meaningful Modal Logs + New Specific Logs
MergeLogs(t, u, newLogs) ==
  LET previousLogIds == Ids(t.logs)
      logsFromModal == SelectSeq(u.logs, LAMBDA l : l.id \notin previousLogIds)
      meaningfulLogsFromModal ==
        SelectSeq(logsFromModal, LAMBDA l : l.message # PlaceholderMsg)
  IN t.logs \o meaningfulLogsFromModal \o newLogs

\* a replacement that leaves the snapshot's logs as the modal built them
UpdatedTask_KeepsSnapshotLogs(t, updatedTask, lists, labels, firstId, ts) ==
  LET msgs == DiffMessages(t, updatedTask, lists, labels)
      newLogs == [i \in DOMAIN msgs |-> Log(firstId + i - 1, ts, msgs[i])]
  IN [updatedTask EXCEPT
        !.labelIds = SortLabels(updatedTask.labelIds),
        !.logs = updatedTask.logs \o newLogs]

\* the stored task t replaced by the snapshot; newLogs take the ids from firstId on
UpdatedTask(t, updatedTask, lists, labels, firstId, ts) ==
  LET msgs == DiffMessages(t, updatedTask, lists, labels)
      newLogs == [i \in DOMAIN msgs |-> Log(firstId + i - 1, ts, msgs[i])]
  IN [updatedTask EXCEPT
        !.labelIds = SortLabels(updatedTask.labelIds),
        !.logs = MergeLogs(t, updatedTask, newLogs)]

\* the ids handleUpdateTask draws from crypto.randomUUID()
UpdateIds(prev, updatedTask, lists, labels) ==
  IF FindIndex(prev, updatedTask.id) = 0 THEN 0
  ELSE Len(DiffMessages(prev[FindIndex(prev, updatedTask.id)], updatedTask, lists, labels))

handleUpdateTask(prev, updatedTask, lists, labels, firstId, ts) ==
  [i \in DOMAIN prev |->
     IF prev[i].id = updatedTask.id
     THEN UpdatedTask(prev[i], updatedTask, lists, labels, firstId, ts)
     ELSE prev[i]]

\* ------------------------------------------------------------- TaskDetailModal
\* handleUpdate: the edited snapshot, with the placeholder log appended
handleUpdate(task, updates, logId, ts) ==
  Spread(Spread(task, updates),
         [logs |-> Append(task.logs, Log(logId, ts, PlaceholderMsg))])

toggleLabel(task, labelId) ==
  IF labelId \in Range(task.labelIds)
  THEN [labelIds |-> SelectSeq(task.labelIds, LAMBDA id : id # labelId)]
  ELSE [labelIds |-> Append(task.labelIds, labelId)]

addReminder(task, time, id) ==
  [reminders |-> Append(task.reminders, [id |-> id, time |-> time, fired |-> FALSE])]

deleteReminder(task, id) ==
  [reminders |-> SelectSeq(task.reminders, LAMBDA r : r.id # id)]

handleAddLink(task, url, id) ==
  [attachments |-> Append(task.attachments, [id |-> id, name |-> url, type |-> "link"])]

deleteAttachment(task, id) ==
  [attachments |-> SelectSeq(task.attachments, LAMBDA a : a.id # id)]

handleAddSubtask(task, title, id) ==
  [subtasks |-> Append(task.subtasks,
                  [id |-> id, title |-> title, completed |-> FALSE, dueDate |-> NoDate])]

toggleSubtask(task, subId) ==
  [subtasks |-> [i \in DOMAIN task.subtasks |->
                   IF task.subtasks[i].id = subId
                   THEN [task.subtasks[i] EXCEPT !.completed = ~task.subtasks[i].completed]
                   ELSE task.subtasks[i]]]

updateSubtask(task, subId, updates) ==
  [subtasks |-> [i \in DOMAIN task.subtasks |->
                   IF task.subtasks[i].id = subId
                   THEN Spread(task.subtasks[i], updates)
                   ELSE task.subtasks[i]]]

deleteSubtask(task, subId) ==
  [subtasks |-> SelectSeq(task.subtasks, LAMBDA x : x.id # subId)]


\* ------------------------------------------------------------- SmartInput
\* the partial task handleSubmit passes to onAddTask; aiResult is <<>> for null
\* what ai.models.generateContent gives: a rejection, a response with no text,
\* or a response whose text is the JSON of a draft
Rejected == [kind |-> "throws", draft |-> <<>>]
NoText == [kind |-> "empty", draft |-> <<>>]
Text(draft) == [kind |-> "text", draft |-> << draft >>]

\* the draft, or null: when there is no text, and when anything threw
parseTaskWithGemini(response) ==
  IF response.kind = "text" THEN response.draft ELSE <<>>

\* a fallback that passes no title on
IntakePartial_FallbackWithoutTitle(input, aiResult, ts) ==
  IF aiResult # <<>>
  THEN [ title |-> aiResult[1].title,
         description |-> aiResult[1].description,
         dueDate |-> aiResult[1].dueDate,
         priority |-> IF Truthy(aiResult[1].priority) THEN aiResult[1].priority ELSE "None",
         estimate |-> aiResult[1].estimate ]
  ELSE [ priority |-> "None", createdAt |-> ts ]

IntakePartial(input, aiResult, ts) ==
  IF aiResult # <<>>
  THEN [ title |-> aiResult[1].title,
         description |-> aiResult[1].description,
         dueDate |-> aiResult[1].dueDate,
         priority |-> IF Truthy(aiResult[1].priority) THEN aiResult[1].priority ELSE "None",
         estimate |-> aiResult[1].estimate ]
  ELSE [ title |-> input, priority |-> "None", createdAt |-> ts ]

\* input.trim() is empty
Blank(input) == input \in {"", " "}

\* a form that is submitted whatever the state of its button
Submits_WhileLoading(input, loading) == TRUE

\* the form's submit event reaches handleSubmit: the submit button is rendered
\* while the text is not blank, and is disabled while a call is in flight; a
\* form whose submit button is disabled is not submitted
Submits(input, loading) == Blank(input) \/ ~loading

\* ------------------------------------------------------------- App: filteredTasks
\* the texts of titles, descriptions and queries, as their characters
Chars(text) ==
  CASE text = "" -> <<>>
    [] text = "ab" -> <<"a", "b">>
    [] text = "Untitled Task" -> <<"U", "n", "t", "i", "t", "l", "e", "d", " ", "T", "a", "s", "k">>
    [] OTHER -> << text >>

LowerChar(c) ==
  CASE c = "A" -> "a" [] c = "B" -> "b" [] c = "U" -> "u" [] c = "T" -> "t" [] OTHER -> c

toLowerCase(chars) == [i \in DOMAIN chars |-> LowerChar(chars[i])]

includes(chars, part) ==
  \E i \in 0 .. (Len(chars) - Len(part)) : SubSeq(chars, i + 1, i + Len(part)) = part

isToday(dateString, today) ==
  /\ HasDate(dateString)
  /\ getDate(dateString) = getDate(today)
  /\ getMonth(dateString) = getMonth(today)
  /\ getFullYear(dateString) = getFullYear(today)

isNext7Days(dateString, today) ==
  /\ HasDate(dateString)
  /\ dateString >= today
  /\ dateString <= setDate(today, getDate(today) + 7)

\* the search branch: the filter of a query that is not empty
MatchesQuery(t, searchQuery) ==
  LET lowerQ == toLowerCase(Chars(searchQuery)) IN
  \/ includes(toLowerCase(Chars(t.title)), lowerQ)
  \/ (Truthy(t.description) /\ includes(toLowerCase(Chars(t.description)), lowerQ))

\* a today view that forgets the completed flag
ShownInView_TodayKeepsCompleted(t, activeView, labels, today) ==
  IF activeView \in Ids(labels)
  THEN activeView \in Range(t.labelIds) /\ ~t.completed
  ELSE CASE activeView = "inbox" -> t.listId = "inbox" /\ ~t.completed
         [] activeView = "today" -> isToday(t.dueDate, today)
         [] activeView = "next7" -> isNext7Days(t.dueDate, today) /\ ~t.completed
         [] activeView = "upcoming" -> HasDate(t.dueDate) /\ t.dueDate > today /\ ~t.completed
         [] activeView = "all" -> TRUE
         [] OTHER -> t.listId = activeView /\ ~t.completed

\* the standard view filtering: the predicate of the filter of each view
ShownInView(t, activeView, labels, today) ==
  IF activeView \in Ids(labels)
  THEN activeView \in Range(t.labelIds) /\ ~t.completed
  ELSE CASE activeView = "inbox" -> t.listId = "inbox" /\ ~t.completed
         [] activeView = "today" -> isToday(t.dueDate, today) /\ ~t.completed
         [] activeView = "next7" -> isNext7Days(t.dueDate, today) /\ ~t.completed
         [] activeView = "upcoming" -> HasDate(t.dueDate) /\ t.dueDate > today /\ ~t.completed
         [] activeView = "all" -> TRUE
         [] OTHER -> t.listId = activeView /\ ~t.completed

prioOrder(priority) ==
  CASE priority = "High" -> 3 [] priority = "Medium" -> 2 [] priority = "Low" -> 1
    [] OTHER -> 0

\* the collation of the characters in use: a < A < b < B < ...
CollationOrder == <<" ", "a", "A", "b", "B", "d", "e", "i", "k", "l", "n", "s", "t", "T", "u", "U">>
Collation(c) == CHOOSE i \in DOMAIN CollationOrder : CollationOrder[i] = c

RECURSIVE CompareChars(_, _)
CompareChars(x, y) ==
  IF x = <<>> /\ y = <<>> THEN 0
  ELSE IF x = <<>> THEN -1
  ELSE IF y = <<>> THEN 1
  ELSE IF Collation(x[1]) # Collation(y[1])
       THEN (IF Collation(x[1]) < Collation(y[1]) THEN -1 ELSE 1)
       ELSE CompareChars(Tail(x), Tail(y))

localeCompare(x, y) == CompareChars(Chars(x), Chars(y))

\* earliest due date first, tasks without a due date last
CompareDueDate(a, b) ==
  IF HasDate(a.dueDate) /\ HasDate(b.dueDate) THEN a.dueDate - b.dueDate
  ELSE IF HasDate(a.dueDate) THEN -1
  ELSE IF HasDate(b.dueDate) THEN 1
  ELSE 0

\* a smart order that looks at the due date first
CompareSmart_DueDateFirst(a, b) ==
  IF CompareDueDate(a, b) # 0 THEN CompareDueDate(a, b)
  ELSE prioOrder(b.priority) - prioOrder(a.priority)

CompareSmart(a, b) ==
  IF prioOrder(b.priority) # prioOrder(a.priority)
  THEN prioOrder(b.priority) - prioOrder(a.priority)
  ELSE CompareDueDate(a, b)

CompareBy(a, b, sortBy) ==
  CASE sortBy = "dueDate" -> CompareDueDate(a, b)
    [] sortBy = "priority" -> prioOrder(b.priority) - prioOrder(a.priority)
    [] sortBy = "added" -> b.createdAt - a.createdAt
    [] sortBy = "alphabetical" -> localeCompare(a.title, b.title)
    [] OTHER -> CompareSmart(a, b)

\* a comparator without the completed check
Compare_IgnoresCompleted(a, b, sortBy) == CompareBy(a, b, sortBy)

\* the comparator of the sort
Compare(a, b, sortBy) ==
  IF a.completed # b.completed THEN (IF a.completed THEN 1 ELSE -1)
  ELSE CompareBy(a, b, sortBy)

\* x put behind the elements that do not sort after it
InsertSorted(sorted, x, sortBy) ==
  LET later == { i \in DOMAIN sorted : Compare(sorted[i], x, sortBy) > 0 }
      at == IF later = {} THEN Len(sorted) + 1
            ELSE CHOOSE i \in later : \A j \in later : i <= j
  IN SubSeq(sorted, 1, at - 1) \o << x >> \o SubSeq(sorted, at, Len(sorted))

\* [...filtered].sort(comparator): the sort is stable
RECURSIVE Sorted(_, _)
Sorted(filtered, sortBy) ==
  IF filtered = <<>> THEN <<>>
  ELSE InsertSorted(Sorted(SubSeq(filtered, 1, Len(filtered) - 1), sortBy),
                    filtered[Len(filtered)], sortBy)

\* the display list, computed at the instant `today`
filteredTasks(tasks, activeView, labels, searchQuery, sortBy, today) ==
  IF activeView = "activity" THEN <<>>
  ELSE
    LET filtered ==
          IF activeView = "search"
          THEN (IF searchQuery # ""
                THEN SelectSeq(tasks, LAMBDA t : MatchesQuery(t, searchQuery))
                ELSE tasks)
          ELSE SelectSeq(tasks, LAMBDA t : ShownInView(t, activeView, labels, today))
    IN Sorted(filtered, sortBy)

\* ------------------------------------------------------------- localStorage
\* what getItem returns: null for a key never written, else the string written,
\* which is the JSON text of a value or a text that is no JSON
NoItem == << "null" >>
NoJson == << "text", "{" >>
stringify(value) == << "json", value >>

\* JSON.parse throws a SyntaxError on a text that is no JSON
Throws(saved) == saved[1] = "text"

\* saved ? JSON.parse(saved) : fallback, for a saved text that parses
parseOr(saved, fallback) == IF saved[1] = "null" THEN fallback ELSE saved[2]

\* ------------------------------------------------------------- state
VARIABLES
  tasks,       \* App: the task collection, most recent first
  lists,       \* App: the task lists
  labels,      \* App: the labels
  activeView,  \* App: the view shown
  modal,       \* TaskDetailModal: <<>> when closed, else << its task state >>
  now,         \* the clock
  nextId,      \* the next value of crypto.randomUUID()
  isLoading,   \* SmartInput: an intake call is in flight
  pending,     \* SmartInput: the calls in flight, each with the input and view it was
               \* submitted with
  permission,  \* Notification.permission
  notified,    \* the reminders a Notification was raised for: once, and more than once
  searchQuery, \* App: the text of the search box
  sortBy,      \* App: the sort mode of the display list
  storage,     \* localStorage: the values under the three zentask_ keys
  started,     \* "off" before App is mounted, then "running", or "failed" when
               \* its first render threw
  cfg,         \* how many handlers hist records and how many ids the run may draw
  hist         \* the store handlers (and clock steps) that ran last, latest first,
               \* each with its argument and the tasks and the modal state it found

vars == << tasks, lists, labels, activeView, modal, now, nextId, isLoading, pending,
           permission, notified, searchQuery, sortBy, storage, started, cfg, hist >>

\* the persistence effects: after a render that changed a collection, its key
\* holds the collection
Persisted ==
  storage' = [ zentask_tasks |-> stringify(tasks'),
               zentask_lists |-> stringify(lists'),
               zentask_labels |-> stringify(labels') ]

Op(name, id, arg) == [name |-> name, id |-> id, arg |-> arg]

Min(a, b) == IF a <= b THEN a ELSE b

Note(name, id, arg) ==
  /\ hist' = SubSeq(<< [op |-> Op(name, id, arg), before |-> tasks, modal |-> modal] >>
                      \o hist, 1, Min(Len(hist) + 1, cfg.track))
  /\ UNCHANGED cfg

\* an id that no stored task has
UnknownId == nextId

\* ------------------------------------------------------------- inputs
Titles == {"A", "B"}
Inputs == {" A", " "}
Drafts ==
  { [title |-> "B", description |-> "d", dueDate |-> 0,
     priority |-> "High", estimate |-> "01:00"],
    [title |-> "A", description |-> Undef, dueDate |-> NoDate,
     priority |-> Undef, estimate |-> Undef] }
Responses == {Rejected, NoText} \cup { Text(d) : d \in Drafts }
\* fire times offered for a new reminder: one the clock reaches, one it does not
ReminderTimes == {0, MaxNow + 1}

\* ------------------------------------------------------------- actions: intake
SubmitIntakeOf(inputs) ==
  /\ activeView # "activity"
  /\ \E input \in inputs :
       /\ Submits(input, isLoading)
       /\ isLoading' = IF Blank(input) THEN isLoading ELSE TRUE
       /\ pending' = IF Blank(input) THEN pending
                     ELSE Append(pending, [input |-> input, view |-> activeView])
       /\ UNCHANGED << cfg, hist >>
  /\ UNCHANGED << tasks, lists, labels, activeView, modal, now, nextId, permission, notified >>
  /\ UNCHANGED << searchQuery, sortBy, started >>
  /\ Persisted

\* the call k in flight completes: onAddTask, then finally setIsLoading(false)
CompleteIntakeOf(responses) ==
  /\ nextId + 1 <= cfg.maxIds
  /\ \E k \in DOMAIN pending : \E response \in responses :
       /\ tasks' = handleAddTask(tasks,
                      IntakePartial(pending[k].input, parseTaskWithGemini(response), now),
                      pending[k].view, nextId, nextId + 1, now)
       /\ Note("add", nextId, [ view |-> pending[k].view, input |-> pending[k].input,
                                response |-> response.kind ])
       /\ pending' = SubSeq(pending, 1, k - 1) \o SubSeq(pending, k + 1, Len(pending))
  /\ nextId' = nextId + 2
  /\ isLoading' = FALSE
  /\ UNCHANGED << lists, labels, activeView, modal, now, permission, notified >>
  /\ UNCHANGED << searchQuery, sortBy, started >>
  /\ Persisted

\* ------------------------------------------------------------- actions: store
ToggleTask ==
  \E id \in Ids(tasks) \cup {UnknownId} :
    /\ nextId + ToggleIds(tasks, id) - 1 <= cfg.maxIds
    /\ tasks' = handleToggleTask(tasks, id, nextId, now)
    /\ nextId' = nextId + ToggleIds(tasks, id)
    /\ Note("toggle", id, "")
    /\ UNCHANGED << lists, labels, activeView, modal, now, isLoading, pending,
                    permission, notified >>
    /\ UNCHANGED << searchQuery, sortBy, started >>
    /\ Persisted

DeleteTask ==
  \E id \in Ids(tasks) \cup {UnknownId} :
    /\ tasks' = handleDeleteTask(tasks, id)
    /\ modal' = <<>>
    /\ Note("delete", id, "")
    /\ UNCHANGED << lists, labels, activeView, now, nextId, isLoading, pending,
                    permission, notified >>
    /\ UNCHANGED << searchQuery, sortBy, started >>
    /\ Persisted

\* onSave(task); onClose()
SaveModal ==
  /\ modal # <<>>
  /\ nextId + UpdateIds(tasks, modal[1], lists, labels) - 1 <= cfg.maxIds
  /\ tasks' = handleUpdateTask(tasks, modal[1], lists, labels, nextId, now)
  /\ nextId' = nextId + UpdateIds(tasks, modal[1], lists, labels)
  /\ modal' = <<>>
  /\ Note("update", modal[1].id, "")
  /\ UNCHANGED << lists, labels, activeView, now, isLoading, pending, permission, notified >>
  /\ UNCHANGED << searchQuery, sortBy, started >>
  /\ Persisted

\* snapshots of a task that is not stored (any longer)
StraySnapshots == { [tasks[i] EXCEPT !.id = UnknownId, !.title = "B"] : i \in DOMAIN tasks }

\* handleUpdateTask called with a snapshot whose id no stored task has
UpdateStray ==
  \E u \in StraySnapshots :
    /\ tasks' = handleUpdateTask(tasks, u, lists, labels, nextId, now)
    /\ nextId' = nextId + UpdateIds(tasks, u, lists, labels)
    /\ Note("update", u.id, "stray")
    /\ UNCHANGED << lists, labels, activeView, modal, now, isLoading, pending,
                    permission, notified >>
    /\ UNCHANGED << searchQuery, sortBy, started >>
    /\ Persisted

DeleteListOf(ids) ==
  \E id \in ids :
    /\ lists' = handleDeleteListLists(lists, id)
    /\ tasks' = handleDeleteListTasks(tasks, id)
    /\ activeView' = IF activeView = id THEN "inbox" ELSE activeView
    /\ Note("deleteList", id, activeView)
    /\ UNCHANGED << labels, modal, now, nextId, isLoading, pending, permission, notified >>
    /\ UNCHANGED << searchQuery, sortBy, started >>
    /\ Persisted

DeleteLabelOf(ids) ==
  \E id \in ids :
    /\ labels' = handleDeleteLabelLabels(labels, id)
    /\ tasks' = handleDeleteLabelTasks(tasks, id)
    /\ activeView' = IF activeView = id THEN "inbox" ELSE activeView
    /\ Note("deleteLabel", id, activeView)
    /\ UNCHANGED << lists, modal, now, nextId, isLoading, pending, permission, notified >>
    /\ UNCHANGED << searchQuery, sortBy, started >>
    /\ Persisted

SetActiveViewOf(views) ==
  \E v \in views :
    /\ activeView' = v
    /\ UNCHANGED << cfg, hist >>
    /\ UNCHANGED << tasks, lists, labels, modal, now, nextId, isLoading, pending,
                    permission, notified >>
    /\ UNCHANGED << searchQuery, sortBy, started >>
    /\ Persisted

\* ------------------------------------------------------------- actions: reminder check
Tick ==
  /\ tasks' = reminderCheck(tasks, now)
  /\ notified' =
       IF permission = "granted"
       THEN [ once |-> notified.once \cup NotifiedBy(tasks, now),
              again |-> notified.again \cup (notified.once \cap NotifiedBy(tasks, now)) ]
       ELSE notified
  /\ Note("tick", 0, "")
  /\ UNCHANGED << lists, labels, activeView, modal, now, nextId, isLoading, pending, permission >>
  /\ UNCHANGED << searchQuery, sortBy, started >>
  /\ Persisted

AdvanceTime ==
  /\ now < MaxNow
  /\ now' = now + 1
  /\ Note("advance", 0, "")
  /\ UNCHANGED << tasks, lists, labels, activeView, modal, nextId, isLoading, pending,
                  permission, notified >>
  /\ UNCHANGED << searchQuery, sortBy, started >>
  /\ Persisted

\* ------------------------------------------------------------- actions: detail modal
\* onSelect(task): the modal opens on the stored task
SelectTask ==
  /\ modal = <<>>
  /\ \E i \in DOMAIN tasks : modal' = << tasks[i] >>
  /\ UNCHANGED << cfg, hist >>
  /\ UNCHANGED << tasks, lists, labels, activeView, now, nextId, isLoading, pending,
                  permission, notified >>
  /\ UNCHANGED << searchQuery, sortBy, started >>
  /\ Persisted

CloseModal ==
  /\ modal # <<>>
  /\ modal' = <<>>
  /\ UNCHANGED << cfg, hist >>
  /\ UNCHANGED << tasks, lists, labels, activeView, now, nextId, isLoading, pending,
                  permission, notified >>
  /\ UNCHANGED << searchQuery, sortBy, started >>
  /\ Persisted

Edit(upd, ids) == [upd |-> upd, ids |-> ids]

\* the edits of the modal that draw no id of their own; the label picker offers
\* the labels of the label collection
PlainEdits(task) ==
  { Edit([title |-> x], 0) : x \in Titles \ {task.title} }
  \cup { Edit([completed |-> ~task.completed], 0) }
  \cup { Edit(toggleLabel(task, l), 0) : l \in {"urgent"} \cap Ids(labels) }
  \cup { Edit(deleteReminder(task, id), 0) : id \in Ids(task.reminders) }

\* the edits that create a reminder, with id as the new reminder's id
ReminderEdits(task, id) ==
  { Edit(addReminder(task, time, id), 1) : time \in ReminderTimes }

ModalEditWith(edits) ==
  /\ modal # <<>>
  /\ \E e \in edits :
       /\ nextId + e.ids <= cfg.maxIds
       /\ modal' = << handleUpdate(modal[1], e.upd, nextId + e.ids, now) >>
       /\ nextId' = nextId + e.ids + 1
  /\ UNCHANGED << cfg, hist >>
  /\ UNCHANGED << tasks, lists, labels, activeView, now, isLoading, pending,
                  permission, notified >>
  /\ UNCHANGED << searchQuery, sortBy, started >>
  /\ Persisted



\* ------------------------------------------------------------- start-up states
\* A collection found in localStorage at start-up is one an earlier session left.
\* Its tasks are built with the handlers: a task added from the intake box and
\* then saved from the modal with some fields set.  Their ids (101..) are
\* disjoint from the ids 1.. that the run draws.
BaseTask == NewTask([title |-> "A"], "inbox", 101, 102, 0)

SeedWith(fields) ==
  handleUpdateTask(<< BaseTask >>, Spread(BaseTask, fields),
                   INITIAL_LISTS, INITIAL_LABELS, 110, 0)[1]

SeedReminders ==
  << [id |-> 103, time |-> 0, fired |-> FALSE],
     [id |-> 104, time |-> 1, fired |-> FALSE],
     [id |-> 105, time |-> MaxNow + 1, fired |-> FALSE] >>

SeedAttachments == << [id |-> 106, name |-> "u", type |-> "link"] >>

\* a second task, added in the Work list and given a reminder that is due
OtherTask ==
  handleUpdateTask(
    << NewTask([title |-> "B"], "work", 121, 122, 0) >>,
    Spread(NewTask([title |-> "B"], "work", 121, 122, 0),
           [reminders |-> << [id |-> 123, time |-> 0, fired |-> FALSE] >>]),
    INITIAL_LISTS, INITIAL_LABELS, 130, 0)[1]

InitWith(collections, tracking, maxIds) ==
  /\ tasks \in collections
  /\ lists = INITIAL_LISTS
  /\ labels = INITIAL_LABELS
  /\ activeView = "inbox"
  /\ modal = <<>>
  /\ now = 0
  /\ nextId = 1
  /\ isLoading = FALSE
  /\ pending = <<>>
  /\ permission = "granted"
  /\ notified = [once |-> {}, again |-> {}]
  /\ searchQuery = ""
  /\ sortBy = "smart"
  /\ storage = [ zentask_tasks |-> stringify(tasks),
                 zentask_lists |-> stringify(lists),
                 zentask_labels |-> stringify(labels) ]
  /\ started = "running"
  /\ cfg = [track |-> tracking, maxIds |-> maxIds]
  /\ hist = <<>>

\* ------------------------------------------------------------- Spec: a whole session
SessionSeeds ==
  { <<>>,
    << SeedWith([reminders |-> SubSeq(SeedReminders, 1, 1), labelIds |-> << "urgent" >>,
                 listId |-> "work"]) >> }

Init == InitWith(SessionSeeds, 0, MaxIds)

ModalEdit == ModalEditWith(PlainEdits(modal[1]) \cup ReminderEdits(modal[1], nextId))
DeleteList == DeleteListOf({"work"})
DeleteLabel == DeleteLabelOf({"urgent"})
SubmitIntake == SubmitIntakeOf({"A"})
CompleteIntake == CompleteIntakeOf({NoText})

Next ==
  \/ SubmitIntake
  \/ CompleteIntake
  \/ ToggleTask
  \/ DeleteTask
  \/ SelectTask
  \/ ModalEdit
  \/ SaveModal
  \/ CloseModal
  \/ UpdateStray
  \/ DeleteList
  \/ DeleteLabel
  \/ Tick

Spec == Init /\ [][Next]_vars

\* ------------------------------------------------------------- SpecOps: the store handlers
\* the recurrence rules, each with the custom intervals it is stored with
RuleChoices ==
  { [recurrence |-> r, recurrenceCustom |-> NoCustom] : r \in Recurrences }
  \cup { [recurrence |-> "Custom", recurrenceCustom |-> [amount |-> a, unit |-> u]] :
           a \in {2}, u \in RecurrenceUnits }

\* no due date; Friday 2024-01-05; 2024-01-31 in the second slot of the day
DueChoices == { NoDate, 4 * SlotsPerDay, 30 * SlotsPerDay + 1 }

\* a weekly task that was completed, and whose next occurrence was deleted
CompletedWeekly ==
  handleDeleteTask(
    handleToggleTask(<< SeedWith([recurrence |-> "Weekly", dueDate |-> 0,
                                 reminders |-> SeedReminders]) >>, 101, 140, 0),
    141)

OpsSeeds ==
  { << SeedWith(Spread(rule, [dueDate |-> d, reminders |-> SeedReminders,
                              attachments |-> SeedAttachments,
                              labelIds |-> << "urgent" >>])) >> :
      rule \in RuleChoices, d \in DueChoices }
  \cup { << OtherTask, SeedWith([reminders |-> SeedReminders]) >>,
         CompletedWeekly }

InitOps == InitWith(OpsSeeds, 2, MaxIdsOps)

NextOps ==
  \/ ToggleTask
  \/ DeleteTask
  \/ UpdateStray
  \/ Tick
  \/ AdvanceTime

SpecOps == InitOps /\ [][NextOps]_vars

\* ------------------------------------------------------------- SpecModal: editing in the modal
ModalSeeds ==
  { << SeedWith([labelIds |-> << "dev" >>]) >> }

InitModal == InitWith(ModalSeeds, 2, MaxIdsModal)

ModalEditPlain == ModalEditWith(PlainEdits(modal[1]))

NextModal ==
  \/ SelectTask
  \/ ModalEditPlain
  \/ SaveModal
  \/ CloseModal
  \/ ToggleTask

SpecModal == InitModal /\ [][NextModal]_vars

\* ------------------------------------------------------------- SpecViews: adding from a view
AllViews == BuiltinViews \cup Ids(INITIAL_LISTS) \cup Ids(INITIAL_LABELS)

SetActiveView == SetActiveViewOf(AllViews)
SubmitAny == SubmitIntakeOf(Inputs)
CompleteAny == CompleteIntakeOf(Responses)

ViewSeeds ==
  { <<>>,
    << OtherTask, BaseTask >> }

InitViews == InitWith(ViewSeeds, 1, MaxIdsViews)

NextViews ==
  \/ SetActiveView
  \/ SubmitAny
  \/ CompleteAny

SpecViews == InitViews /\ [][NextViews]_vars


\* ------------------------------------------------------------- SpecLists: lists and labels
\* a task an earlier session added from the intake's `partial` and saved from
\* the modal with `fields`; it takes the ids from id on
TaskFrom(id, partial, fields) ==
  handleUpdateTask(
    << NewTask(partial, "inbox", id, id + 1, 0) >>,
    Spread(NewTask(partial, "inbox", id, id + 1, 0), fields),
    INITIAL_LISTS, INITIAL_LABELS, id + 2, 0)[1]

TaskWith(id, title, fields) == TaskFrom(id, [title |-> title], fields)

ListSeeds ==
  { << TaskWith(200, "A", [listId |-> l, labelIds |-> ls]),
       TaskWith(220, "B", [listId |-> "work", labelIds |-> <<"urgent", "design">>,
                           completed |-> TRUE]) >> :
      l \in {"inbox", "work", "personal"},
      ls \in { <<>>, <<"dev", "urgent">>, <<"design", "dev", "urgent">> } }

ListViews == {"inbox", "all", "work", "personal", "dev", "urgent"}

InitLists == InitWith(ListSeeds, 1, MaxIds)

\* the Sidebar offers the built-in views and the lists and labels there are
SetListView ==
  SetActiveViewOf({ v \in ListViews :
                      v \in BuiltinViews \cup Ids(lists) \cup Ids(labels) })
DeleteAnyList == DeleteListOf({"work", "personal"})
DeleteAnyLabel == DeleteLabelOf({"dev", "urgent"})

NextLists ==
  \/ SetListView
  \/ DeleteAnyList
  \/ DeleteAnyLabel

SpecLists == InitLists /\ [][NextLists]_vars

\* ------------------------------------------------------------- SpecCalc: the calculator
\* the anchors reach from 2024-01-01 past the leap day and the end of the year
\* into March 2025
MaxAnchorDay == 430

\* every rule without an interval, and Custom with intervals of every unit; the
\* amount field of the modal takes any integer but 0, a negative one included
CalcRules ==
  RuleChoices
  \cup { [recurrence |-> "Custom", recurrenceCustom |-> [amount |-> a, unit |-> u]] :
           a \in {1, 3}, u \in RecurrenceUnits }
  \cup { [recurrence |-> "Custom", recurrenceCustom |-> [amount |-> -1, unit |-> "days"]] }

CalcSeeds ==
  { << TaskFrom(200, [title |-> "A", dueDate |-> d], rule) >> :
      d \in 0 .. (MaxAnchorDay * SlotsPerDay + SlotsPerDay - 1), rule \in CalcRules }

InitCalc == InitWith(CalcSeeds, 1, MaxIds)

\* the calculator applied to the due date and the rule of the task, its result
\* taken as the next anchor
ApplyNextDueDate ==
  /\ DayOf(tasks[1].dueDate) \in 1 .. MaxAnchorDay
  /\ tasks' = << [tasks[1] EXCEPT
                    !.dueDate = calculateNextDueDate(tasks[1].dueDate, tasks[1].recurrence,
                                                     tasks[1].recurrenceCustom)] >>
  /\ Note("nextDueDate", tasks[1].id, "")
  /\ UNCHANGED << lists, labels, activeView, modal, now, nextId, isLoading, pending,
                  permission, notified >>
  /\ UNCHANGED << searchQuery, sortBy, started >>
  /\ Persisted

NextCalc == ApplyNextDueDate

SpecCalc == InitCalc /\ [][NextCalc]_vars

\* ------------------------------------------------------------- SpecDisplay: the display list
SortOptions == {"smart", "priority", "dueDate", "added", "alphabetical"}
Queries == {"", "a", "B"}

\* onChange of the search box
SetSearchQuery ==
  \E q \in Queries :
    /\ searchQuery' = q
    /\ activeView' = IF q # "" /\ activeView # "search" THEN "search" ELSE activeView
    /\ UNCHANGED << cfg, hist >>
    /\ UNCHANGED << tasks, lists, labels, modal, now, nextId, isLoading, pending,
                    permission, notified, sortBy, started >>
    /\ Persisted

\* a SortMenuItem
SetSortBy ==
  \E option \in SortOptions :
    /\ sortBy' = option
    /\ UNCHANGED << cfg, hist >>
    /\ UNCHANGED << tasks, lists, labels, activeView, modal, now, nextId, isLoading,
                    pending, permission, notified, searchQuery, started >>
    /\ Persisted

\* three tasks: the first and the second open or completed, of high or medium
\* priority, undated or due today or tomorrow; the third of no priority, due
\* in more than a week or not at all
DisplaySeeds ==
  { << TaskFrom(200, [title |-> "A"],
                [completed |-> c1, priority |-> p1, dueDate |-> d1]),
       TaskFrom(220, [title |-> "B", description |-> "ab"],
                [completed |-> c2, priority |-> p2, dueDate |-> d2,
                 listId |-> "work", labelIds |-> <<"urgent">>]),
       TaskFrom(240, [title |-> "a"], third) >> :
      c1 \in BOOLEAN, p1 \in {"High", "Medium"}, d1 \in {NoDate, 0, SlotsPerDay},
      c2 \in BOOLEAN, p2 \in {"High", "Low"}, d2 \in {NoDate, SlotsPerDay + 1},
      third \in { [completed |-> FALSE], [completed |-> TRUE, dueDate |-> 0],
                  [dueDate |-> 8 * SlotsPerDay, listId |-> "work"] } }

DisplayViews == {"inbox", "today", "next7", "upcoming", "all", "activity", "work", "urgent"}

InitDisplay == InitWith(DisplaySeeds, 0, MaxIds)

SetDisplayView == SetActiveViewOf(DisplayViews)

NextDisplay ==
  \/ SetDisplayView
  \/ SetSearchQuery
  \/ SetSortBy
  \/ AdvanceTime

SpecDisplay == InitDisplay /\ [][NextDisplay]_vars

\* ------------------------------------------------------------- SpecLoad: start-up
\* what a key of localStorage may hold when App is mounted: nothing, a text
\* that is no JSON, or what an earlier session wrote
StoredTasks ==
  { NoItem, NoJson, stringify(<<>>), stringify(<< BaseTask >>),
    stringify(<< OtherTask, BaseTask >>) }
StoredLists ==
  { NoItem, NoJson, stringify(INITIAL_LISTS), stringify(SubSeq(INITIAL_LISTS, 2, 3)) }
StoredLabels ==
  { NoItem, NoJson, stringify(INITIAL_LABELS), stringify(<<>>) }

\* App before it is mounted: no state but the storage
Unmounted ==
  /\ tasks = <<>>
  /\ lists = <<>>
  /\ labels = <<>>
  /\ activeView = "inbox"
  /\ modal = <<>>
  /\ isLoading = FALSE
  /\ pending = <<>>
  /\ searchQuery = ""
  /\ sortBy = "smart"
  /\ started = "off"

InitLoad ==
  /\ Unmounted
  /\ storage \in [ zentask_tasks : StoredTasks, zentask_lists : StoredLists,
                    zentask_labels : StoredLabels ]
  /\ now = 0
  /\ nextId = 1
  /\ permission = "granted"
  /\ notified = [once |-> {}, again |-> {}]
  /\ cfg = [track |-> 0, maxIds |-> MaxIds]
  /\ hist = <<>>

\* the first render: the three useState initialisers, then the persistence
\* effects; an initialiser that throws ends the render and nothing is mounted
Mount ==
  /\ started = "off"
  /\ LET savedTasks == parseOr(storage.zentask_tasks, <<>>)
         savedLists == parseOr(storage.zentask_lists, INITIAL_LISTS)
         savedLabels == parseOr(storage.zentask_labels, INITIAL_LABELS)
     IN IF \/ Throws(storage.zentask_tasks)
           \/ Throws(storage.zentask_lists)
           \/ Throws(storage.zentask_labels)
        THEN /\ started' = "failed"
             /\ UNCHANGED << tasks, lists, labels, storage >>
        ELSE /\ started' = "running"
             /\ tasks' = savedTasks
             /\ lists' = savedLists
             /\ labels' = savedLabels
             /\ Persisted
  /\ UNCHANGED << activeView, modal, now, nextId, isLoading, pending, permission,
                  notified, searchQuery, sortBy, cfg, hist >>

\* the page is closed or reloaded: the state of App is gone, the storage stays
Unmount ==
  /\ started # "off"
  /\ tasks' = <<>>
  /\ lists' = <<>>
  /\ labels' = <<>>
  /\ activeView' = "inbox"
  /\ modal' = <<>>
  /\ isLoading' = FALSE
  /\ pending' = <<>>
  /\ searchQuery' = ""
  /\ sortBy' = "smart"
  /\ started' = "off"
  /\ UNCHANGED << storage, now, nextId, permission, notified, cfg, hist >>

Running == started = "running"

NextLoad ==
  \/ Mount
  \/ Unmount
  \/ (Running /\ ToggleTask)
  \/ (Running /\ DeleteTask)
  \/ (Running /\ DeleteList)
  \/ (Running /\ DeleteLabel)

SpecLoad == InitLoad /\ [][NextLoad]_vars

\* ------------------------------------------------------------- SpecMerge: handleUpdateTask on any snapshot
\* handleUpdateTask as a function of its argument: a snapshot of a stored task
\* with either title and with logs the stored task may or may not have
MaxIdsMerge == 3

ForeignLogs ==
  << Log(901, 0, <<"Completed task">>), Log(902, 0, PlaceholderMsg),
     Log(903, 0, <<"Marked as incomplete">>) >>

SnapshotLogs(t) ==
  { t.logs,
    t.logs \o ForeignLogs,
    << ForeignLogs[3], ForeignLogs[2], ForeignLogs[1] >>,
    SubSeq(t.logs, 1, 1) \o SubSeq(ForeignLogs, 2, 3) }

Snapshots(t) ==
  { [t EXCEPT !.title = x, !.logs = l] : x \in Titles, l \in SnapshotLogs(t) }

UpdateWith ==
  \E i \in DOMAIN tasks : \E u \in Snapshots(tasks[i]) :
    /\ nextId + UpdateIds(tasks, u, lists, labels) - 1 <= cfg.maxIds
    /\ tasks' = handleUpdateTask(tasks, u, lists, labels, nextId, now)
    /\ nextId' = nextId + UpdateIds(tasks, u, lists, labels)
    /\ Note("update", u.id, << u >>)
    /\ UNCHANGED << lists, labels, activeView, modal, now, isLoading, pending,
                    permission, notified >>
    /\ UNCHANGED << searchQuery, sortBy, started >>
    /\ Persisted

MergeSeeds == { << BaseTask >>, << SeedWith([title |-> "B"]) >> }

InitMerge == InitWith(MergeSeeds, 1, MaxIdsMerge)

NextMerge ==
  \/ UpdateWith
  \/ ToggleTask

SpecMerge == InitMerge /\ [][NextMerge]_vars

\* ------------------------------------------------------------- SpecAttach: attachments in the modal
MaxIdsAttach == 4

\* adding a link, with id as the attachment's id, and removing an attachment
AttachEdits(task, id) ==
  { Edit(handleAddLink(task, "v", id), 1) }
  \cup { Edit(deleteAttachment(task, a), 0) : a \in Ids(task.attachments) }

ModalEditAttach == ModalEditWith(AttachEdits(modal[1], nextId))

AttachSeeds ==
  { << SeedWith([attachments |-> SeedAttachments]) >>,
    << BaseTask, OtherTask >> }

InitAttach == InitWith(AttachSeeds, 1, MaxIdsAttach)

NextAttach ==
  \/ SelectTask
  \/ ModalEditAttach
  \/ SaveModal
  \/ CloseModal

SpecAttach == InitAttach /\ [][NextAttach]_vars

\* ------------------------------------------------------------- SpecRecur: completing a recurring task
MaxIdsRecur == 3

\* a weekly task, and a task that does not recur
RecurSeeds ==
  { << SeedWith([recurrence |-> "Weekly", dueDate |-> 0]) >>,
    << BaseTask >> }

InitRecur == InitWith(RecurSeeds, 1, MaxIdsRecur)

NextRecur ==
  \/ SelectTask
  \/ ModalEditPlain
  \/ SaveModal
  \/ CloseModal
  \/ ToggleTask

SpecRecur == InitRecur /\ [][NextRecur]_vars

\* ------------------------------------------------------------- SpecFair: the interval keeps running
\* setInterval runs the reminder check every 10 seconds for as long as App is
\* mounted: a check that has something to fire is not put off for ever
FairSeeds ==
  { << OtherTask, SeedWith([reminders |-> SeedReminders]) >>,
    << SeedWith([reminders |-> SeedReminders]), OtherTask >> }

InitFair == InitWith(FairSeeds, 0, MaxIds)

NextFair ==
  \/ Tick
  \/ AdvanceTime
  \/ ToggleTask
  \/ DeleteTask

SpecFair == InitFair /\ [][NextFair]_vars /\ WF_vars(Tick)

\* ------------------------------------------------------------- properties: helpers
TaskById(ts, id) == ts[FindIndex(ts, id)]

\* the handler that ran last is `name`
Did(name) == hist # <<>> /\ hist[1].op.name = name

\* the handler that ran last is `name`, called with the id of a stored task
DidOnStored(name) == Did(name) /\ hist[1].op.id \in Ids(hist[1].before)

\* a and b agree on every field outside `fields`
SameExcept(a, b, fields) ==
  /\ DOMAIN a = DOMAIN b
  /\ \A f \in DOMAIN a \ fields : a[f] = b[f]

LastOf(s) == s[Len(s)]

\* the task toggled by the last handler, before and after it
ToggledBefore == TaskById(hist[1].before, hist[1].op.id)
ToggledAfter == TaskById(tasks, hist[1].op.id)

\* the spawned task is at the front, new, open and bare, and the stored tasks
\* follow it in their order
SpawnedAtFront ==
  /\ Len(tasks) = Len(hist[1].before) + 1
  /\ tasks[1].id \notin Ids(hist[1].before)
  /\ ~tasks[1].completed
  /\ tasks[1].reminders = <<>>
  /\ tasks[1].attachments = <<>>
  /\ Len(tasks[1].logs) = 1
  /\ \A i \in DOMAIN hist[1].before : tasks[i + 1].id = hist[1].before[i].id

\* ------------------------------------------------------------- C1
\* C1 (as stated): toggling a stored open task with a recurrence adds exactly one
\* task, at the front, with a fresh id, completed = false, no reminders, no
\* attachments, one log entry and dueDate = calculateNextDueDate(the original due
\* date); the stored tasks keep their order.
C1_AsStated ==
  (DidOnStored("toggle") /\ ~ToggledBefore.completed /\ ToggledBefore.recurrence # "None")
  => /\ SpawnedAtFront
     /\ tasks[1].dueDate = calculateNextDueDate(ToggledBefore.dueDate,
                             ToggledBefore.recurrence, ToggledBefore.recurrenceCustom)

\* C1 (amended): the same, with dueDate = calculateNextDueDate(the original due
\* date, or the current time when the task has no due date); for Weekly that is
\* the anchor plus 7 days.
C1_ToggleSpawnsNextOccurrence ==
  (DidOnStored("toggle") /\ ~ToggledBefore.completed /\ ToggledBefore.recurrence # "None")
  => LET anchor == IF HasDate(ToggledBefore.dueDate) THEN ToggledBefore.dueDate ELSE now
     IN /\ SpawnedAtFront
        /\ tasks[1].dueDate = calculateNextDueDate(anchor, ToggledBefore.recurrence,
                                                   ToggledBefore.recurrenceCustom)
        /\ (ToggledBefore.recurrence = "Weekly"
              => tasks[1].dueDate = anchor + 7 * SlotsPerDay)

\* a weekly task with a due date, reminders and attachments was completed and
\* its next occurrence stands at the front, a week later
C1_Witness ==
  /\ DidOnStored("toggle")
  /\ ~ToggledBefore.completed
  /\ ToggledBefore.recurrence = "Weekly"
  /\ HasDate(ToggledBefore.dueDate)
  /\ ToggledBefore.reminders # <<>>
  /\ ToggledBefore.attachments # <<>>
  /\ Len(tasks) = 2
  /\ tasks[1].dueDate = ToggledBefore.dueDate + 7 * SlotsPerDay

\* ------------------------------------------------------------- C4
\* C4: toggling a stored task that is completed, or whose recurrence is None,
\* spawns nothing: the collection keeps its length, every other task is as it
\* was, and the toggled task differs only in its completed flag, flipped, and in
\* its logs, one entry longer.
C4_NoSpawnOtherwise ==
  (DidOnStored("toggle") /\ (ToggledBefore.completed \/ ToggledBefore.recurrence = "None"))
  => /\ Len(tasks) = Len(hist[1].before)
     /\ \A i \in DOMAIN tasks :
          IF hist[1].before[i].id = hist[1].op.id
          THEN /\ SameExcept(tasks[i], hist[1].before[i], {"completed", "logs"})
               /\ tasks[i].completed = ~hist[1].before[i].completed
               /\ Len(tasks[i].logs) = Len(hist[1].before[i].logs) + 1
               /\ IsPrefix(hist[1].before[i].logs, tasks[i].logs)
          ELSE tasks[i] = hist[1].before[i]

\* a completed task with a recurrence was toggled back to open
C4_Witness ==
  /\ DidOnStored("toggle")
  /\ ToggledBefore.completed
  /\ ToggledBefore.recurrence # "None"
  /\ ~ToggledAfter.completed
  /\ LastOf(ToggledAfter.logs).message = <<"Uncompleted task">>

\* ------------------------------------------------------------- C5
\* the last two handlers were both ToggleComplete of the same stored task
ToggledTwice ==
  /\ Len(hist) = 2
  /\ hist[1].op.name = "toggle"
  /\ hist[2].op.name = "toggle"
  /\ hist[1].op.id = hist[2].op.id
  /\ hist[2].op.id \in Ids(hist[2].before)

\* C5: two consecutive toggles of a task whose recurrence is None leave its
\* completed flag as it was, its logs two entries longer, and the number of tasks
\* unchanged.
C5_ToggleTwice ==
  (ToggledTwice /\ TaskById(hist[2].before, hist[2].op.id).recurrence = "None")
  => /\ ToggledAfter.completed = TaskById(hist[2].before, hist[2].op.id).completed
     /\ Len(ToggledAfter.logs) = Len(TaskById(hist[2].before, hist[2].op.id).logs) + 2
     /\ Len(tasks) = Len(hist[2].before)

\* a task without recurrence was completed and then reopened
C5_Witness ==
  /\ ToggledTwice
  /\ TaskById(hist[2].before, hist[2].op.id).recurrence = "None"
  /\ ~TaskById(hist[2].before, hist[2].op.id).completed
  /\ ToggledBefore.completed
  /\ ~ToggledAfter.completed

\* ------------------------------------------------------------- C6
\* C6: after a reminder check at time now, on every task only the reminders
\* differ, and each reminder is fired if it was unfired and due (time <= now) on
\* a task that was not completed, and is as it was otherwise.
C6_TickFiresDue ==
  Did("tick")
  => /\ Len(tasks) = Len(hist[1].before)
     /\ \A i \in DOMAIN tasks :
          /\ SameExcept(tasks[i], hist[1].before[i], {"reminders"})
          /\ Len(tasks[i].reminders) = Len(hist[1].before[i].reminders)
          /\ \A j \in DOMAIN tasks[i].reminders :
               tasks[i].reminders[j] =
                 IF /\ ~hist[1].before[i].completed
                    /\ ~hist[1].before[i].reminders[j].fired
                    /\ hist[1].before[i].reminders[j].time <= now
                 THEN [hist[1].before[i].reminders[j] EXCEPT !.fired = TRUE]
                 ELSE hist[1].before[i].reminders[j]

\* a check fired one reminder of an open task and left a later one unfired,
\* next to a completed task whose due reminder stayed unfired
C6_Witness ==
  /\ Did("tick")
  /\ \E i \in DOMAIN tasks :
       /\ ~tasks[i].completed
       /\ \E j \in DOMAIN tasks[i].reminders :
            tasks[i].reminders[j].fired /\ ~hist[1].before[i].reminders[j].fired
       /\ \E j \in DOMAIN tasks[i].reminders :
            ~tasks[i].reminders[j].fired /\ tasks[i].reminders[j].time > now
  /\ \E i \in DOMAIN tasks :
       /\ tasks[i].completed
       /\ \E j \in DOMAIN tasks[i].reminders :
            ~tasks[i].reminders[j].fired /\ tasks[i].reminders[j].time <= now

\* ------------------------------------------------------------- C7
\* C7: ToggleComplete, UpdateTask and DeleteTask called with an id that no stored
\* task has leave the collection as it was.
C7_UnknownIdIsNoOp ==
  (hist # <<>> /\ hist[1].op.name \in {"toggle", "update", "delete"}
     /\ hist[1].op.id \notin Ids(hist[1].before))
  => tasks = hist[1].before

\* each of the three handlers ran on a non-empty collection with an unknown id
C7_Witness ==
  /\ Len(hist) = 2
  /\ hist[2].before # <<>>
  /\ hist[1].op.name = "update" /\ hist[1].op.id \notin Ids(hist[1].before)
  /\ hist[2].op.name \in {"toggle", "delete"} /\ hist[2].op.id \notin Ids(hist[2].before)


\* ------------------------------------------------------------- C8
\* the last handler was UpdateTask, saving the modal's snapshot of a stored task
SavedFromModal == DidOnStored("update") /\ hist[1].modal # <<>>

SavedStored == TaskById(hist[1].before, hist[1].op.id)
SavedSnapshot == hist[1].modal[1]
SavedResult == TaskById(tasks, hist[1].op.id)

\* the snapshot carries a placeholder log of the modal
CarriesPlaceholder(u) == \E i \in DOMAIN u.logs : u.logs[i].message = PlaceholderMsg

\* C8: saving a snapshot that differs from the stored task only in its title, "A"
\* to "B", appends exactly one log entry, whose message contains "B"; saving a
\* snapshot that differs in no field appends none, placeholder logs of the modal
\* notwithstanding.
C8_RenameLogsOnce ==
  SavedFromModal
  => /\ (SameExcept(SavedStored, SavedSnapshot, {"title", "logs"})
           /\ SavedStored.title = "A" /\ SavedSnapshot.title = "B")
        => /\ Len(SavedResult.logs) = Len(SavedStored.logs) + 1
           /\ IsPrefix(SavedStored.logs, SavedResult.logs)
           /\ "B" \in Range(LastOf(SavedResult.logs).message)
     /\ SameExcept(SavedStored, SavedSnapshot, {"logs"})
        => SavedResult.logs = SavedStored.logs

\* a save of an unchanged snapshot that carries placeholders, after a save that
\* renamed the task from "A" to "B"
C8_Witness ==
  /\ Len(hist) = 2
  /\ SavedFromModal
  /\ SameExcept(SavedStored, SavedSnapshot, {"logs"})
  /\ CarriesPlaceholder(SavedSnapshot)
  /\ hist[2].op.name = "update"
  /\ hist[2].modal # <<>>
  /\ CarriesPlaceholder(hist[2].modal[1])
  /\ TaskById(hist[2].before, hist[2].op.id).title = "A"
  /\ hist[2].modal[1].title = "B"
  /\ SameExcept(TaskById(hist[2].before, hist[2].op.id), hist[2].modal[1], {"title", "logs"})


\* ------------------------------------------------------------- C2
\* C2: a reminder that is fired stays fired, in every step of every handler, for
\* as long as its task is stored and holds it.
C2_FiredStaysFired ==
  [][\A i \in DOMAIN tasks : \A k \in DOMAIN tasks' :
       tasks'[k].id = tasks[i].id
       => \A j \in DOMAIN tasks[i].reminders : \A m \in DOMAIN tasks'[k].reminders :
            (tasks'[k].reminders[m].id = tasks[i].reminders[j].id
               /\ tasks[i].reminders[j].fired)
            => tasks'[k].reminders[m].fired]_vars

\* ------------------------------------------------------------- C3
\* C3: in every step, the logs a stored task had before the step are a prefix of
\* the logs it has after it, unless the step deletes the task.
C3_LogsOnlyGrow ==
  [][\A i \in DOMAIN tasks : \A k \in DOMAIN tasks' :
       tasks'[k].id = tasks[i].id => IsPrefix(tasks[i].logs, tasks'[k].logs)]_vars

\* the task of the start-up collection was completed, had its reminder fired,
\* and lost its list and its label, and holds its first logs and the completion
C3_Witness ==
  \E i \in DOMAIN tasks :
    /\ tasks[i].id = 101
    /\ tasks[i].completed
    /\ tasks[i].listId = "inbox"
    /\ tasks[i].labelIds = <<>>
    /\ \E j \in DOMAIN tasks[i].reminders : tasks[i].reminders[j].fired
    /\ tasks[i].logs[1].message = <<"Task created">>
    /\ LastOf(tasks[i].logs).message = <<"Completed task">>
    /\ Len(tasks[i].logs) > 2

\* ------------------------------------------------------------- C9
\* C9: AddTask puts exactly one task in front of the stored ones, which stay as
\* they were: it has a fresh id, completed = false, the single log "Task
\* created", and no subtasks, labels, reminders or attachments.
C9_AddAtFront ==
  Did("add")
  => /\ Len(tasks) = Len(hist[1].before) + 1
     /\ Tail(tasks) = hist[1].before
     /\ tasks[1].id \notin Ids(hist[1].before)
     /\ ~tasks[1].completed
     /\ Len(tasks[1].logs) = 1
     /\ tasks[1].logs[1].message = <<"Task created">>
     /\ tasks[1].subtasks = <<>>
     /\ tasks[1].labelIds = <<>>
     /\ tasks[1].reminders = <<>>
     /\ tasks[1].attachments = <<>>

\* a task drafted by the intake was added in front of two stored tasks
C9_Witness ==
  /\ Did("add")
  /\ Len(hist[1].before) = 2
  /\ Len(tasks) = 3
  /\ tasks[1].title = "B"
  /\ tasks[1].priority = "High"

\* ------------------------------------------------------------- C10
\* C10: the task AddTask stores has the active view as its listId when that view
\* is a custom list, and "inbox" for every other view, a label view included.
C10_ListIdFromView ==
  Did("add")
  => tasks[1].listId = IF hist[1].op.arg.view \in Ids(lists) THEN hist[1].op.arg.view
                        ELSE "inbox"


\* ------------------------------------------------------------- C11
\* the step is a call of the handler `name`
Calls(name) == hist' # hist /\ hist'[1].op.name = name

\* C11: a step DeleteList(id) leaves no list with that id in the list collection,
\* puts every task that was in the list in "inbox", leaves no task with
\* listId = id, changes no task in any field but listId, and turns a view that
\* showed the list into the inbox.
C11_DeleteList ==
  [][Calls("deleteList")
     => LET id == hist'[1].op.id
        IN /\ id \notin Ids(lists')
           /\ Len(tasks') = Len(tasks)
           /\ \A i \in DOMAIN tasks :
                /\ tasks'[i].listId # id
                /\ tasks'[i] = [tasks[i] EXCEPT
                                  !.listId = IF tasks[i].listId = id THEN "inbox"
                                             ELSE tasks[i].listId]
           /\ (activeView = id => activeView' = "inbox")]_vars

\* the Work list was deleted while it was shown: both of its tasks are in the
\* inbox and the view is the inbox
C11_Witness ==
  /\ Did("deleteList")
  /\ hist[1].op.id = "work"
  /\ hist[1].op.arg = "work"
  /\ \A i \in DOMAIN hist[1].before : hist[1].before[i].listId = "work"
  /\ \A i \in DOMAIN tasks : tasks[i].listId = "inbox"
  /\ activeView = "inbox"
  /\ Len(lists) < Len(INITIAL_LISTS)

\* ------------------------------------------------------------- C12
\* C12: a step DeleteLabel(id) leaves no label with that id in the label
\* collection and no task that carries id, leaves every task its other labels in
\* the order it had them, and turns a view that showed the label into the inbox.
C12_DeleteLabel ==
  [][Calls("deleteLabel")
     => LET id == hist'[1].op.id
        IN /\ id \notin Ids(labels')
           /\ Len(tasks') = Len(tasks)
           /\ \A i \in DOMAIN tasks :
                /\ id \notin Range(tasks'[i].labelIds)
                /\ Range(tasks'[i].labelIds) = Range(tasks[i].labelIds) \ {id}
                /\ Len(tasks'[i].labelIds) = Cardinality(Range(tasks'[i].labelIds))
                /\ \A j, k \in DOMAIN tasks[i].labelIds :
                     (j < k /\ tasks[i].labelIds[j] # id /\ tasks[i].labelIds[k] # id)
                     => \E m, n \in DOMAIN tasks'[i].labelIds :
                          /\ m < n
                          /\ tasks'[i].labelIds[m] = tasks[i].labelIds[j]
                          /\ tasks'[i].labelIds[n] = tasks[i].labelIds[k]
           /\ (activeView = id => activeView' = "inbox")]_vars

\* the label Dev was deleted while it was shown, from a task that carried it
\* between two others
C12_Witness ==
  /\ Did("deleteLabel")
  /\ hist[1].op.id = "dev"
  /\ hist[1].op.arg = "dev"
  /\ hist[1].before[1].labelIds = <<"design", "dev", "urgent">>
  /\ tasks[1].labelIds = <<"design", "urgent">>
  /\ activeView = "inbox"

\* ------------------------------------------------------------- C13
\* the anchor and the rule the calculator was applied to last, and its result
Anchor == hist[1].before[1].dueDate
Rule == hist[1].before[1].recurrence
Interval == hist[1].before[1].recurrenceCustom
NextDue == tasks[1].dueDate

\* C13 (as stated): for every rule but Custom without an interval, the result
\* for a present anchor is the one the same arguments always give, and it is
\* strictly after the anchor.
C13_AsStated ==
  (Did("nextDueDate") /\ ~(Rule = "Custom" /\ Interval = NoCustom))
  => /\ NextDue = calculateNextDueDate(Anchor, Rule, Interval)
     /\ NextDue > Anchor

\* C13 (amended): the same for every rule but None and Custom without an
\* interval, where the amount of a Custom interval is at least 1.
C13_StrictlyAfter ==
  (/\ Did("nextDueDate")
   /\ Rule # "None"
   /\ ~(Rule = "Custom" /\ Interval = NoCustom)
   /\ (Rule = "Custom" => Interval.amount >= 1))
  => /\ NextDue = calculateNextDueDate(Anchor, Rule, Interval)
     /\ NextDue > Anchor

\* a custom interval of three months was applied to the last day of November:
\* the result is in March, the February of the result being too short
C13_Witness ==
  /\ Did("nextDueDate")
  /\ Rule = "Custom"
  /\ Interval = [amount |-> 3, unit |-> "months"]
  /\ getMonth(Anchor) = 10
  /\ getDate(Anchor) = 30
  /\ getMonth(NextDue) = 2
  /\ NextDue > Anchor

\* ------------------------------------------------------------- C14
\* C14: for Weekdays the result is one, two or three days after the anchor, at
\* the same time of day, on a day from Monday to Friday, and every day between
\* the anchor and the result is a Saturday or a Sunday.
C14_NextWeekday ==
  (Did("nextDueDate") /\ Rule = "Weekdays")
  => LET advances == DayOf(NextDue) - DayOf(Anchor)
     IN /\ advances \in 1 .. 3
        /\ TimeOfDay(NextDue) = TimeOfDay(Anchor)
        /\ getDay(NextDue) \in 1 .. 5
        /\ \A j \in 1 .. (advances - 1) : getDay(Anchor + j * SlotsPerDay) \in {0, 6}

\* Weekdays was applied to a Friday: the result is the Monday, three days later
C14_Witness ==
  /\ Did("nextDueDate")
  /\ Rule = "Weekdays"
  /\ getDay(Anchor) = 5
  /\ getDay(NextDue) = 1
  /\ DayOf(NextDue) = DayOf(Anchor) + 3

\* ------------------------------------------------------------- C15
\* the display list as a render at the instant t computes it
Display(t) == filteredTasks(tasks, activeView, labels, searchQuery, sortBy, t)

\* C15: in every view but all, search and activity the display list holds
\* open tasks only, whenever it was computed: the today view never shows a
\* completed task.
C15_OnlyOpenTasks ==
  activeView \notin {"all", "search", "activity"}
  => \A t \in 0 .. now : \A i \in DOMAIN Display(t) : ~Display(t)[i].completed

\* the today view shows a task due today while a completed task due today is
\* stored
C15_Witness ==
  /\ activeView = "today"
  /\ Display(now) # <<>>
  /\ \E i \in DOMAIN tasks : tasks[i].completed /\ isToday(tasks[i].dueDate, now)

\* ------------------------------------------------------------- C16
\* C16: in the search view an empty query gives an empty display list.
C16_EmptyQueryShowsNothing ==
  (activeView = "search" /\ searchQuery = "") => Display(now) = <<>>

\* ------------------------------------------------------------- C17
\* C17: in the display list of every view and sort mode no completed task stands
\* before an open one.
C17_CompletedLast ==
  \A t \in 0 .. now : \A i, j \in DOMAIN Display(t) :
    i < j => ~(Display(t)[i].completed /\ ~Display(t)[j].completed)

\* the all view, sorted by due date, shows an open task behind which the
\* completed tasks stand, one of them stored in front of the open task
C17_Witness ==
  /\ activeView = "all"
  /\ sortBy = "dueDate"
  /\ Len(Display(now)) = 3
  /\ ~Display(now)[1].completed
  /\ Display(now)[2].completed
  /\ Display(now)[3].completed
  /\ tasks[1].completed
  /\ HasDate(tasks[1].dueDate)

\* ------------------------------------------------------------- C18
\* C18: under smart, of two displayed tasks with the same completed flag the one
\* of higher priority stands first whatever their due dates, and of two of equal
\* priority the one due earlier stands first, a task without due date behind
\* every dated one.
C18_SmartOrder ==
  sortBy = "smart"
  => \A t \in 0 .. now : \A i, j \in DOMAIN Display(t) :
       (i < j /\ Display(t)[i].completed = Display(t)[j].completed)
       => LET a == Display(t)[i]
              b == Display(t)[j]
          IN /\ prioOrder(a.priority) >= prioOrder(b.priority)
             /\ (prioOrder(a.priority) = prioOrder(b.priority) /\ HasDate(b.dueDate))
                => (HasDate(a.dueDate) /\ a.dueDate <= b.dueDate)

\* smart shows an undated task of high priority before a task of medium priority
\* that is due tomorrow, stored in the other order
C18_Witness ==
  /\ sortBy = "smart"
  /\ activeView = "all"
  /\ \E i, j \in DOMAIN Display(now) :
       /\ i < j
       /\ Display(now)[i].priority = "High"
       /\ ~HasDate(Display(now)[i].dueDate)
       /\ Display(now)[j].priority = "Medium"
       /\ Display(now)[j].dueDate = SlotsPerDay
       /\ ~Display(now)[i].completed
       /\ ~Display(now)[j].completed
       /\ FindIndex(tasks, Display(now)[j].id) < FindIndex(tasks, Display(now)[i].id)

\* ------------------------------------------------------------- C19
\* C19: start-up never fails, and each collection whose key holds nothing or a
\* text that cannot be parsed takes its default: no tasks, the seed lists, the
\* seed labels.
C19_LoadDefaults ==
  [][(started = "off" /\ started' # "off")
     => /\ started' = "running"
        /\ storage.zentask_tasks[1] # "json" => tasks' = <<>>
        /\ storage.zentask_lists[1] # "json" => lists' = INITIAL_LISTS
        /\ storage.zentask_labels[1] # "json" => labels' = INITIAL_LABELS]_vars

UpdatedWith == hist[1].op.arg[1]

\* the logs of the snapshot u that the stored task t lacks and that are no placeholder
KeptLogs(t, u) ==
  SelectSeq(u.logs, LAMBDA l : l.id \notin Ids(t.logs) /\ l.message # PlaceholderMsg)

\* C21: after UpdateTask on a stored task, the task's logs are the logs stored
\* before, then the snapshot's logs that were not stored and are no placeholder,
\* in the snapshot's order, then the synthesized logs: new ids, one "Renamed to"
\* entry when the title changed and none when nothing changed.
C21_LogOrder ==
  DidOnStored("update")
  => LET t == SavedStored
         u == UpdatedWith
         merged == SavedResult.logs
         kept == t.logs \o KeptLogs(t, u)
         synthesized == SubSeq(merged, Len(kept) + 1, Len(merged))
     IN /\ IsPrefix(kept, merged)
        /\ \A i \in DOMAIN synthesized :
             synthesized[i].id \notin Ids(t.logs) \cup Ids(u.logs)
        /\ Len(synthesized) = IF t.title # u.title THEN 1 ELSE 0
        /\ t.title # u.title
           => synthesized[1].message = <<"Renamed to", u.title>>

\* a rename whose snapshot holds, after the first stored log, a placeholder and
\* a log that is not stored: the stored logs, that log, then the rename
C21_Witness ==
  /\ DidOnStored("update")
  /\ SavedStored.title # UpdatedWith.title
  /\ Len(SavedStored.logs) >= 2
  /\ UpdatedWith.logs = SubSeq(SavedStored.logs, 1, 1) \o SubSeq(ForeignLogs, 2, 3)
  /\ SavedResult.logs =
       SavedStored.logs \o << ForeignLogs[3] >>
         \o << Log(LastOf(SavedResult.logs).id, LastOf(SavedResult.logs).timestamp,
                   <<"Renamed to", UpdatedWith.title>>) >>

\* ------------------------------------------------------------- C22
\* C22: in every state of a session, whether it started with no task or with a
\* saved one, no stored task has a log whose message is the placeholder the
\* detail modal writes.
C22_NoPlaceholderStored ==
  \A i \in DOMAIN tasks : \A j \in DOMAIN tasks[i].logs :
    tasks[i].logs[j].message # PlaceholderMsg

\* the modal is closed and a stored task holds the log of a rename to "B", which
\* only a save of an edited snapshot writes
C22_Witness ==
  /\ modal = <<>>
  /\ \E i \in DOMAIN tasks :
       /\ tasks[i].title = "B"
       /\ LastOf(tasks[i].logs).message = <<"Renamed to", "B">>

\* ------------------------------------------------------------- C23
\* the logs the last save appended to the saved task
SavedNewLogs == SubSeq(SavedResult.logs, Len(SavedStored.logs) + 1, Len(SavedResult.logs))

\* how many of the logs start with the word
CountLogs(logs, word) == Cardinality({ i \in DOMAIN logs : logs[i].message[1] = word })

\* C23: a save from the modal appends as many "Added attachment" logs as the
\* snapshot has attachments whose id the stored task lacks, and as many "Removed
\* attachment" logs as the stored task has attachments whose id the snapshot lacks.
C23_AttachmentLogs ==
  SavedFromModal
  => /\ CountLogs(SavedNewLogs, "Added attachment")
          = Cardinality(Ids(SavedSnapshot.attachments) \ Ids(SavedStored.attachments))
     /\ CountLogs(SavedNewLogs, "Removed attachment")
          = Cardinality(Ids(SavedStored.attachments) \ Ids(SavedSnapshot.attachments))

C25_ListIdsValid ==
  \A i \in DOMAIN tasks : tasks[i].listId \in {"inbox"} \cup Ids(lists)

\* ------------------------------------------------------------- C26
\* C26: in every step in which a stored task with a recurrence goes from open
\* to completed, a task is added to the collection and the completed task's
\* last log is "Completed task".
C26_CompletionSpawns ==
  [][\A i \in DOMAIN tasks : \A k \in DOMAIN tasks' :
       (/\ tasks'[k].id = tasks[i].id
        /\ tasks[i].recurrence # "None"
        /\ ~tasks[i].completed
        /\ tasks'[k].completed)
       => /\ Len(tasks') = Len(tasks) + 1
          /\ LastOf(tasks'[k].logs).message = <<"Completed task">>]_vars

\* ------------------------------------------------------------- C27
\* C27: in every state, no reminder has been notified of more than once.
C27_NotifiedOnce == notified.again = {}

\* ------------------------------------------------------------- C28
\* the task id is stored and open and holds the reminder r, unfired
OpenUnfired(id, r) ==
  \E i \in DOMAIN tasks :
    /\ tasks[i].id = id
    /\ ~tasks[i].completed
    /\ \E j \in DOMAIN tasks[i].reminders :
         tasks[i].reminders[j].id = r /\ ~tasks[i].reminders[j].fired

\* ... and the reminder's time has passed
DueUnfired(id, r) ==
  \E i \in DOMAIN tasks :
    /\ tasks[i].id = id
    /\ ~tasks[i].completed
    /\ \E j \in DOMAIN tasks[i].reminders :
         /\ tasks[i].reminders[j].id = r
         /\ ~tasks[i].reminders[j].fired
         /\ tasks[i].reminders[j].time <= now

\* C28: with the interval running, an unfired reminder whose time has passed, on
\* a stored open task, does not stay so for ever: it is marked fired, unless its
\* task is completed or deleted first.
C28_DueEventuallyFired ==
  \A id \in {101, 121} : \A r \in {103, 104, 105, 123} :
    DueUnfired(id, r) ~> ~OpenUnfired(id, r)

\* the clock passed the time of the second reminder of the open task 101, and
\* the reminder is fired
C28_Witness ==
  /\ now = 1
  /\ \E i \in DOMAIN tasks :
       /\ tasks[i].id = 101
       /\ ~tasks[i].completed
       /\ tasks[i].reminders[2].id = 104
       /\ tasks[i].reminders[2].time = 1
       /\ tasks[i].reminders[2].fired
       /\ ~tasks[i].reminders[3].fired

C30_TodayWithinNext7 ==
  \A i \in DOMAIN tasks :
    ShownInView(tasks[i], "today", labels, now)
    => ShownInView(tasks[i], "next7", labels, now)

====
